---- MODULE Spec2Model ----
(***************************************************************************)
(* PRISM pattern recognition engine (src/prism.py, class Engine).          *)
(*                                                                         *)
(* The engine is used in two ways: Engine().run() drives the whole         *)
(* pipeline (parse, batching loop over proc, aggregation), and the core    *)
(* operations parse, clean, analyze, anom, proc and calc_stability are     *)
(* callable on their own.  Both uses are modelled: the run is a state      *)
(* machine over pc, and a direct call of one operation records its         *)
(* arguments and its outcome in the variable call.                         *)
(*                                                                         *)
(* Numbers.  Python floats are modelled by exact integers and rationals.   *)
(* Two places where binary64 rounding decides a branch are modelled by a   *)
(* choice of the rounding direction: the comparison of a z-score with a    *)
(* threshold it equals exactly (anom), and round(x, 2) of a value that     *)
(* lies exactly half way (calc_stability).  A value the cleaner rejects    *)
(* (NaN, infinity, magnitude above 1e15, a non-number) is a tagged sample. *)
(* Of a batch summary the model keeps the counts, the order statistics,    *)
(* the anomalies and the danger rating; mean, std, cv and the fit of the   *)
(* batch (type, r2, params) are float valued, influence neither a count    *)
(* nor the control flow, and are left out of the summary.                  *)
(***************************************************************************)
EXTENDS Integers, Sequences, FiniteSets, TLC

VARIABLES pc, batch_sz, raw, data, invalid_parse, nb, i, batches,
          procCalls, report, call

vars == <<pc, batch_sz, raw, data, invalid_parse, nb, i, batches,
          procCalls, report, call>>

(***************************************************************************)
(* Bounds of the model.                                                    *)
(***************************************************************************)
MaxTokens == 4
MaxRun == 27
MaxBatchSz == 28
MaxAnomLen == 10
MaxFitLen == 4
MaxSeqLen == 3

(***************************************************************************)
(* Program constants.                                                      *)
(***************************************************************************)
\* The variant with the threshold 2.0.
z_thLow == 3 - 1
z_th == 3
CritZ == 5

(***************************************************************************)
(* Generic helpers.                                                        *)
(***************************************************************************)
Min(a, b) == IF a < b THEN a ELSE b
Max(a, b) == IF a > b THEN a ELSE b
Abs(a) == IF a < 0 THEN -a ELSE a
Sign(a) == IF a < 0 THEN -1 ELSE IF a > 0 THEN 1 ELSE 0

\* sum(s), added up by halves to keep the evaluation shallow.
RECURSIVE SumRange(_, _, _)
SumRange(s, lo, hi) ==
    IF lo > hi THEN 0
    ELSE IF lo = hi THEN s[lo]
    ELSE LET mid == (lo + hi) \div 2
         IN  SumRange(s, lo, mid) + SumRange(s, mid + 1, hi)

Sum(s) == SumRange(s, 1, Len(s))

RECURSIVE GCD(_, _)
GCD(a, b) == IF b = 0 THEN a ELSE GCD(b, a % b)

Rep(v, n) == [k \in 1..n |-> v]
SeqsUpTo(S, n) == UNION {[1..k -> S] : k \in 0..n}

\* Exact rationals n/d with d > 0, in lowest terms.
Rat(n, d) ==
    LET s == IF d < 0 THEN -1 ELSE 1
        g == GCD(Abs(n), Abs(d))
    IN  [n |-> (s * n) \div g, d |-> (s * d) \div g]
RatInt(k) == [n |-> k, d |-> 1]
RatLess(a, b) == a.n * b.d < b.n * a.d
RatSub(a, b) == Rat(a.n * b.d - b.n * a.d, a.d * b.d)
RatMul(a, b) == Rat(a.n * b.n, a.d * b.d)

\* A goodness-of-fit score as the code holds it: the exact rational n/d and
\* e, the sign of the rounding error of the float computed for it.  Scores
\* compare by the exact value first and by the rounding error second.
Score(r, e) == [n |-> r.n, d |-> r.d, e |-> e]
ScoreLess(a, b) ==
    \/ a.n * b.d < b.n * a.d
    \/ a.n * b.d = b.n * a.d /\ a.e < b.e
\* 1 - ss_res/ss_tot: never above 1, whatever the rounding.
OneMinus(q, e) ==
    LET r == RatSub(RatInt(1), q)
    IN  Score(r, IF r.n = r.d /\ e > 0 THEN 0 ELSE e)
\* max(0, r2): the literal 0 unless r2 is greater.
Max0(r2) ==
    IF r2.n > 0 \/ (r2.n = 0 /\ r2.e > 0) THEN r2 ELSE Score(RatInt(0), 0)

(***************************************************************************)
(* Samples and tokens.  A sample is a number (k = "num", value v), a       *)
(* finite number of magnitude above 1e15 ("huge"), NaN ("nan"), an         *)
(* infinity ("inf") or an object that is no number ("obj").  A token is    *)
(* one element of raw.split(): a numeric literal ("num", "huge"), one of   *)
(* the missing markers NULL NA NAN NONE N/A - ("marker"), a literal that   *)
(* float() reads as nan or inf ("nan", "inf"), or any other text ("bad").  *)
(***************************************************************************)
Num(v) == [k |-> "num", v |-> v]
Huge == [k |-> "huge", v |-> 0]
NaN == [k |-> "nan", v |-> 0]
Inf == [k |-> "inf", v |-> 0]
Obj == [k |-> "obj", v |-> 0]
Marker == [k |-> "marker", v |-> 0]
Bad == [k |-> "bad", v |-> 0]

\* An outcome of an operation: a returned value, or an exception that
\* left the operation.
Ok(v) == [ok |-> TRUE, val |-> v]
Raised == [ok |-> FALSE, val |-> <<>>]

\* The raw text: whether it is a string at all, whether it is empty after
\* strip(), and its tokens.
Text(parts) == [str |-> TRUE, empty |-> FALSE, parts |-> parts]
EmptyText == [str |-> TRUE, empty |-> TRUE, parts |-> <<>>]
NotText == [str |-> FALSE, empty |-> FALSE, parts |-> <<>>]

(***************************************************************************)
(* parse: the loop over the tokens, and the blanket except.                *)
(***************************************************************************)
\* The branch a token takes in the loop body: TRUE when it is appended to
\* vals, FALSE when it adds one to invalid_count.
ParseAccepts(p) ==
    IF p.k = "empty" THEN FALSE
    ELSE IF p.k = "marker" THEN FALSE
    ELSE IF p.k = "bad" THEN FALSE
    ELSE IF p.k = "nan" \/ p.k = "inf" THEN FALSE
    ELSE TRUE

parse(r) ==
    IF ~r.str THEN <<(<<Num(0)>>), 1>>
    ELSE LET vals == SelectSeq(r.parts, ParseAccepts)
             invalid_count == Len(r.parts) - Len(vals)
         IN  <<IF vals # <<>> THEN vals ELSE <<Num(0)>>, invalid_count>>

(***************************************************************************)
(* clean: keeps the numbers of magnitude at most 1e15 and counts the rest; *)
(* an empty result is replaced by the one-element list [0].                *)
(***************************************************************************)
\* The branch a value takes in the loop body: TRUE when it is appended,
\* FALSE when it adds one to inv (NaN, infinite, above 1e15, or the test
\* itself raised).
CleanKeeps(v) ==
    IF v.k = "obj" THEN FALSE
    ELSE ~(v.k = "nan" \/ v.k = "inf" \/ v.k = "huge")

clean(d) ==
    LET kept == SelectSeq(d, CleanKeeps)
        cl == [k \in 1..Len(kept) |-> kept[k].v]
        inv == Len(d) - Len(kept)
    IN  <<IF cl # <<>> THEN cl ELSE <<0>>, inv>>

(***************************************************************************)
(* fit.  With n = len(x), u(k) = n*x[k] - sum(x) and w(k) = n*y[k] - sum(y) *)
(* the code's num is P/n^2, den is U/n^2 and ss_tot is W/n^2, where P, U   *)
(* and W are the sums of u*w, u*u and w*w; with the slope a = an/ad the    *)
(* residual y[k] - (a*x[k] + b) is (ad*w(k) - an*u(k))/(n*ad).  On the     *)
(* integers of the model den and ss_tot exceed 1e-10 exactly when they are *)
(* not 0.  sum(x)/len(x) raises ZeroDivisionError on an empty x.  e is the *)
(* sign of the rounding error of the computed r2.                          *)
(***************************************************************************)
fit(x, y, e) ==
    IF Len(x) = 0 THEN Raised
    ELSE LET n == Len(x)
             Sx == Sum(x)
             Sy == Sum(y)
             u == [k \in 1..n |-> n * x[k] - Sx]
             w == [k \in 1..n |-> n * y[k] - Sy]
             P == Sum([k \in 1..n |-> u[k] * w[k]])
             U == Sum([k \in 1..n |-> u[k] * u[k]])
             W == Sum([k \in 1..n |-> w[k] * w[k]])
             a == IF U > 0 THEN Rat(P, U) ELSE RatInt(0)
             b == RatSub(Rat(Sy, n), RatMul(a, Rat(Sx, n)))
             R == Sum([k \in 1..n |->
                         (a.d * w[k] - a.n * u[k]) * (a.d * w[k] - a.n * u[k])])
             r2 == IF W > 0 THEN OneMinus(Rat(R, a.d * a.d * W), e)
                   ELSE Score(Rat(1, 2), 0)
         IN  Ok([a |-> a, b |-> b, r2 |-> Max0(r2)])

(***************************************************************************)
(* analyze.  math.log is modelled on the powers of two, in units of ln 2   *)
(* (the score of a fit does not change when y is scaled); the EXP          *)
(* parameters are kept in these units: a is log2 of the amplitude and b    *)
(* the rate divided by ln 2.  res is the dict in insertion order; err      *)
(* gives each candidate the sign of the rounding error of its score.       *)
(***************************************************************************)
Log2(v) == CHOOSE k \in 0..30 : 2 ^ k = v

Models == {"LINEAR", "QUAD", "EXP"}
Exact(k) == Score(RatInt(k), 0)

LinearCand(x, y, e) ==
    LET f == fit(x, y, e)
    IN  IF f.ok
        THEN [t |-> "LINEAR", r2 |-> f.val.r2,
              p |-> [r2 |-> f.val.r2, a |-> f.val.a, b |-> f.val.b]]
        ELSE [t |-> "LINEAR", r2 |-> Exact(-1), p |-> [r2 |-> Exact(-1)]]

QuadCand(x, y, e) ==
    LET n == Len(y)
        d1 == [k \in 1..(n - 1) |-> y[k + 1] - y[k]]
        d2 == [k \in 1..(n - 2) |-> d1[k + 1] - d1[k]]
        D == 2 * Len(d2)
        aq == Rat(Sum(d2), D)
        bq == RatSub(RatInt(d1[1]), aq)
        cq == y[1]
        \* D * (y[k] - pred[k]), with i = x[k]
        q == [k \in 1..n |->
                D * y[k] - (Sum(d2) * x[k] * x[k]
                            + (D * d1[1] - Sum(d2)) * x[k] + D * cq)]
        Sy == Sum(y)
        W == Sum([k \in 1..n |-> (n * y[k] - Sy) * (n * y[k] - Sy)])
        R == Sum([k \in 1..n |-> q[k] * q[k]])
        r2q == IF W > 0 THEN OneMinus(Rat(R * n * n, D * D * W), e)
               ELSE Score(Rat(3, 10), 0)
    IN  [t |-> "QUAD", r2 |-> Max0(r2q),
         p |-> [r2 |-> Max0(r2q), a |-> aq, b |-> bq, c |-> cq]]

ExpCand(x, y, e) ==
    LET log_y == [k \in 1..Len(y) |-> Log2(y[k])]
        f == fit(x, log_y, e)
    IN  IF f.ok
        THEN [t |-> "EXP", r2 |-> f.val.r2,
              p |-> [r2 |-> f.val.r2, a |-> f.val.b, b |-> f.val.a]]
        ELSE [t |-> "EXP", r2 |-> Exact(-1), p |-> [r2 |-> Exact(-1)]]

\* max(res.items(), key=r2): the items are visited in order and an item
\* replaces the best so far only when its key is strictly greater.
RECURSIVE BestFrom(_, _)
BestFrom(rest, best) ==
    IF rest = <<>> THEN best
    ELSE IF ScoreLess(best.r2, Head(rest).r2)
         THEN BestFrom(Tail(rest), Head(rest))
         ELSE BestFrom(Tail(rest), best)

\* The variant that replaces the best so far on an equal key as well.
BestOfLast(res) ==
    LET last == CHOOSE k \in 1..Len(res) :
                    /\ \A j \in 1..Len(res) : ~ScoreLess(res[k].r2, res[j].r2)
                    /\ \A j \in (k + 1)..Len(res) : ScoreLess(res[j].r2, res[k].r2)
    IN  res[last]

BestOf(res) == BestFrom(Tail(res), Head(res))

Candidates(y, err) ==
    LET x == [k \in 1..Len(y) |-> k - 1]
    IN  <<LinearCand(x, y, err["LINEAR"])>>
        \o (IF Len(y) > 2 THEN <<QuadCand(x, y, err["QUAD"])>> ELSE <<>>)
        \o (IF \A k \in 1..Len(y) : y[k] > 0
            THEN <<ExpCand(x, y, err["EXP"])>> ELSE <<>>)

\* The variant without the try/except around the LINEAR candidate.
analyzeUnguarded(y, err) ==
    IF Len(y) = 0 THEN Raised
    ELSE LET best == BestOf(Candidates(y, err))
         IN  Ok([t |-> best.t, r |-> best.r2, p |-> best.p])

analyze(y, err) ==
    LET best == BestOf(Candidates(y, err))
    IN  Ok([t |-> best.t, r |-> best.r2, p |-> best.p])

(***************************************************************************)
(* anom.  With n = len(y), S = sum(y) and d(i) = n*y[i] - S the code's     *)
(* m is S/n, its variance is Q/n^3 with Q the sum of the d(i)^2, and       *)
(* z(i)^2 = n*d(i)^2/Q; a deviation of at most 1e-10 (Q = 0 on integers)   *)
(* is replaced by 1.  up is the set of sides of the mean (-1 below, 1      *)
(* above) on which the computed quotient is rounded above its exact value, *)
(* which matters only when z equals the threshold exactly.                 *)
(***************************************************************************)
\* The variant that divides by the variance instead of the deviation.
ZExceedsNoSqrt(n, d, Q, t, up) ==
    IF Q = 0 THEN Abs(d) > t * n
    ELSE Abs(d) * n * n > t * Q

ZExceeds(n, d, Q, t, up) ==
    IF Q = 0 THEN Abs(d) > t * n
    ELSE \/ n * d * d > t * t * Q
         \/ n * d * d = t * t * Q /\ Sign(d) \in up

\* z is kept as its exact square z2 and e, 1 when the computed z lies
\* above the exact one.
AnomRec(k, val, n, d, Q, up) ==
    [idx |-> k - 1, val |-> val,
     z2 |-> IF Q = 0 THEN Rat(d * d, n * n) ELSE Rat(n * d * d, Q),
     e |-> IF Sign(d) \in up THEN 1 ELSE 0,
     sev |-> IF ZExceeds(n, d, Q, CritZ, up) THEN "CRITICAL" ELSE "HIGH"]

anom(y, up) ==
    IF Len(y) < 2 THEN [n |-> 0, danger |-> "LOW", anomalies |-> <<>>]
    ELSE LET n == Len(y)
             S == Sum(y)
             dev == [k \in 1..n |-> n * y[k] - S]
             Q == Sum([k \in 1..n |-> dev[k] * dev[k]])
             flagged == SelectSeq([k \in 1..n |-> k],
                            LAMBDA k : ZExceeds(n, dev[k], Q, z_th, up))
             anomalies == [j \in 1..Len(flagged) |->
                              AnomRec(flagged[j], y[flagged[j]], n,
                                      dev[flagged[j]], Q, up)]
             crit == Cardinality({j \in 1..Len(anomalies) :
                                     anomalies[j].sev = "CRITICAL"})
             danger == IF crit > 0 THEN "CRITICAL"
                       ELSE IF anomalies # <<>> THEN "HIGH" ELSE "LOW"
         IN  [n |-> Len(anomalies), danger |-> danger, anomalies |-> anomalies]

(***************************************************************************)
(* calc_stability, in hundredths (10000 is 100.0).  The exact value is     *)
(* N/total_points + 20*danger_score hundredths; round(.., 2) takes the     *)
(* nearest hundredth, and tieUp is the direction taken when the value lies *)
(* exactly half way between two hundredths.                                *)
(***************************************************************************)
DangerScore(danger) ==
    IF danger = "LOW" THEN 100
    ELSE IF danger = "HIGH" THEN 50
    ELSE IF danger = "CRITICAL" THEN 0
    ELSE 75

RoundDiv(N, D, tieUp) ==
    LET q == N \div D
        r == N % D
    IN  IF 2 * r < D THEN q
        ELSE IF 2 * r > D THEN q + 1
        ELSE IF tieUp THEN q + 1 ELSE q

\* The variant that adds the anomaly ratio instead of its complement.
calc_stabilityRatio(total_invalid, total_points, anomalies, danger, tieUp) ==
    IF total_points > 0
    THEN RoundDiv(5000 * (total_points - total_invalid) + 3000 * anomalies,
                  total_points, tieUp)
         + 20 * DangerScore(danger)
    ELSE 0 + 20 * DangerScore(danger)

calc_stability(total_invalid, total_points, anomalies, danger, tieUp) ==
    IF total_points > 0
    THEN RoundDiv(5000 * (total_points - total_invalid)
                    + 3000 * (total_points - anomalies),
                  total_points, tieUp)
         + 20 * DangerScore(danger)
    ELSE 0 + 3000 + 20 * DangerScore(danger)

(***************************************************************************)
(* proc.                                                                   *)
(***************************************************************************)
\* sorted(s)[k - 1]: the value with fewer than k values below it and at
\* least k values not above it.
SortedAt(s, k) ==
    LET v == CHOOSE v \in {s[j] : j \in 1..Len(s)} :
                 /\ Cardinality({j \in 1..Len(s) : s[j] < v}) < k
                 /\ Cardinality({j \in 1..Len(s) : s[j] <= v}) >= k
    IN  v

None == [none |-> TRUE]

proc(batch, bid, invalid_from_parse, up) ==
    LET c == clean(batch)
        cl == c[1]
        inv_clean == c[2]
    IN  IF cl = <<>> THEN None
        ELSE LET an == anom(cl, up)
                 lo == SortedAt(cl, 1)
                 hi == SortedAt(cl, Len(cl))
             IN  [none |-> FALSE,
                  bid |-> bid, total |-> Len(batch), valid |-> Len(cl),
                  invalid_parse |-> invalid_from_parse,
                  invalid_clean |-> inv_clean,
                  total_invalid |-> invalid_from_parse + inv_clean,
                  min |-> lo, max |-> hi,
                  median |-> SortedAt(cl, (Len(cl) \div 2) + 1),
                  range |-> hi - lo,
                  anom |-> an.n, danger |-> an.danger,
                  anom_details |-> an.anomalies]

(***************************************************************************)
(* run: batching and aggregation.                                          *)
(***************************************************************************)
\* The variant that rounds the number of batches down.
NumBatchesFloor(L, B) == Max(1, L \div B)

NumBatches(L, B) == Max(1, (L + B - 1) \div B)
SliceStart(k, B) == k * B
SliceEnd(k, L, B) == Min(k * B + B, L)
Slice(d, s, e) == SubSeq(d, s + 1, e)

DangerRank(x) ==
    IF x = "LOW" THEN 0 ELSE IF x = "HIGH" THEN 1
    ELSE IF x = "CRITICAL" THEN 2 ELSE 0

\* max(s, key=rank): the elements are visited in order and an element
\* replaces the best so far only when its rank is strictly greater.
RECURSIVE MaxDangerFrom(_, _)
MaxDangerFrom(rest, best) ==
    IF rest = <<>> THEN best
    ELSE IF DangerRank(Head(rest)) > DangerRank(best)
         THEN MaxDangerFrom(Tail(rest), Head(rest))
         ELSE MaxDangerFrom(Tail(rest), best)

\* The variant without the key: the greatest string, "LOW" > "HIGH" >
\* "CRITICAL".
MaxDangerNoKey(s) ==
    IF \E k \in 1..Len(s) : s[k] = "LOW" THEN "LOW"
    ELSE IF \E k \in 1..Len(s) : s[k] = "HIGH" THEN "HIGH"
    ELSE "CRITICAL"

MaxDanger(s) == MaxDangerFrom(Tail(s), Head(s))

NoReport == [none |-> TRUE]
NoCall == [op |-> "none", args |-> <<>>, res |-> Ok(<<>>)]

\* Inputs of a run: short texts over every kind of token, and long texts
\* made of runs of equal values, long enough for a z-score to pass the
\* thresholds.
Tokens == {Num(0), Num(1), Huge, Marker, Bad, NaN, Inf}
Runs(p1, q1, p2, q2) ==
    Rep(Num(0), p1) \o Rep(Num(1), q1) \o Rep(Num(0), p2) \o Rep(Num(1), q2)
RawInputs ==
    {EmptyText}
    \cup {Text(t) : t \in SeqsUpTo(Tokens, MaxTokens)}
    \cup {Text(Runs(p1, q1, p2, q2)) :
             p1 \in 0..MaxRun, q1 \in 0..1, p2 \in 0..MaxRun, q2 \in 0..1}
BatchSizes == {2, MaxBatchSz}

Init ==
    /\ pc = "idle"
    /\ batch_sz \in BatchSizes
    /\ raw = EmptyText
    /\ data = <<>>
    /\ invalid_parse = 0
    /\ nb = 0
    /\ i = 0
    /\ batches = <<>>
    /\ procCalls = <<>>
    /\ report = NoReport
    /\ call = NoCall

\* run, lines 177-186: the text is read.
ReadInput ==
    /\ pc = "idle"
    /\ raw' \in RawInputs
    /\ pc' = "read"
    /\ UNCHANGED <<batch_sz, data, invalid_parse, nb, i, batches,
                   procCalls, report, call>>

\* run, lines 188-190.
RejectEmpty ==
    /\ pc = "read"
    /\ raw.empty
    /\ pc' = "rejected"
    /\ UNCHANGED <<batch_sz, raw, data, invalid_parse, nb, i, batches,
                   procCalls, report, call>>

Unparsed(d) == d = <<>> \/ (Len(d) = 1 /\ d[1] = Num(0))

\* run, lines 191-194.
RejectUnparsed ==
    /\ pc = "read"
    /\ ~raw.empty
    /\ Unparsed(parse(raw)[1])
    /\ data' = parse(raw)[1]
    /\ invalid_parse' = parse(raw)[2]
    /\ pc' = "rejected"
    /\ UNCHANGED <<batch_sz, raw, nb, i, batches, procCalls, report, call>>

\* run, lines 191-198.
Parse ==
    /\ pc = "read"
    /\ ~raw.empty
    /\ ~Unparsed(parse(raw)[1])
    /\ data' = parse(raw)[1]
    /\ invalid_parse' = parse(raw)[2]
    /\ nb' = NumBatches(Len(parse(raw)[1]), batch_sz)
    /\ i' = 0
    /\ batches' = <<>>
    /\ pc' = "loop"
    /\ UNCHANGED <<batch_sz, raw, procCalls, report, call>>

\* run, lines 199-206: one iteration of the loop over the batches.
ProcBatch ==
    /\ pc = "loop"
    /\ i < nb
    /\ \E up \in SUBSET {-1, 1} :
          LET s == SliceStart(i, batch_sz)
              e == SliceEnd(i, Len(data), batch_sz)
              batch == Slice(data, s, e)
              inv == IF i = 0 THEN invalid_parse ELSE 0
              result == proc(batch, i + 1, inv, up)
          IN  /\ procCalls' = Append(procCalls,
                     [batch |-> batch, bid |-> i + 1, invalid_from_parse |-> inv])
              /\ batches' = IF result.none THEN batches
                            ELSE Append(batches, result)
    /\ i' = i + 1
    /\ UNCHANGED <<pc, batch_sz, raw, data, invalid_parse, nb, report, call>>

Field(s, f) == [k \in 1..Len(s) |-> s[k][f]]

\* run, lines 209-223: the aggregation; the averages of line 210-214
\* divide by len(batches).
Aggregate ==
    /\ pc = "loop"
    /\ i = nb
    /\ IF batches = <<>>
       THEN /\ pc' = "crashed"
            /\ report' = report
       ELSE \E tieUp \in BOOLEAN :
              LET total_invalid_all == Sum(Field(batches, "total_invalid"))
                  total_valid_all == Sum(Field(batches, "valid"))
                  total_points == Sum(Field(batches, "total"))
                  total_anom == Sum(Field(batches, "anom"))
                  max_danger_val == MaxDanger(Field(batches, "danger"))
              IN  /\ report' = [none |-> FALSE,
                                total_invalid_all |-> total_invalid_all,
                                total_valid_all |-> total_valid_all,
                                total_points |-> total_points,
                                total_anom |-> total_anom,
                                max_danger_val |-> max_danger_val,
                                stability |-> calc_stability(total_invalid_all,
                                    total_points, total_anom, max_danger_val,
                                    tieUp)]
                  /\ pc' = "done"
    /\ UNCHANGED <<batch_sz, raw, data, invalid_parse, nb, i, batches,
                   procCalls, call>>

(***************************************************************************)
(* Direct calls of the core operations (the interface of the core to its   *)
(* callers).  The arguments are drawn from bounded sets that hold the      *)
(* degenerate inputs: the empty sequence, one element, constant            *)
(* sequences, only rejected values, zero total points.                     *)
(***************************************************************************)
Samples == {Num(0), Num(1), Huge, NaN, Inf, Obj}
FitVals == {0, 1, 2, 4}
AnomVals == {8, 9}
AnomVals3 == {8, 9, 10}
OutlierSeq == <<1, 1, 1, 1, 1, 100>>
AnomInputs ==
    SeqsUpTo(AnomVals, MaxAnomLen)
    \cup SeqsUpTo(AnomVals3, MaxAnomLen - 2)
    \cup {OutlierSeq}
    \cup {Rep(8, p) \o <<9>> : p \in 0..MaxRun}
Dangers == {"LOW", "HIGH", "CRITICAL"}
StabInvalid == {0, 1, 3, 100}
StabPoints == {0, 1, 2, 3, 100}
StabAnoms == {0, 1}

Returned(op, args, res) ==
    /\ pc' = "returned"
    /\ call' = [op |-> op, args |-> args, res |-> res]
    /\ UNCHANGED <<batch_sz, raw, data, invalid_parse, nb, i, batches,
                   procCalls, report>>

CallParse ==
    /\ pc = "idle"
    /\ \E r \in {NotText, EmptyText}
                  \cup {Text(t) : t \in SeqsUpTo(Tokens, MaxSeqLen)} :
           Returned("parse", r, Ok(parse(r)))

CallClean ==
    /\ pc = "idle"
    /\ \E d \in SeqsUpTo(Samples, MaxSeqLen) :
           Returned("clean", d, Ok(clean(d)))

CallAnalyze ==
    /\ pc = "idle"
    /\ \E y \in SeqsUpTo(FitVals, MaxFitLen), err \in [Models -> {-1, 0, 1}] :
           Returned("analyze", <<y, err>>, analyze(y, err))

CallAnom ==
    /\ pc = "idle"
    /\ \E y \in AnomInputs, up \in SUBSET {-1, 1} :
           Returned("anom", y, Ok(anom(y, up)))

CallProc ==
    /\ pc = "idle"
    /\ \E batch \in SeqsUpTo(Samples, MaxSeqLen), inv \in 0..1,
          up \in SUBSET {-1, 1} :
           Returned("proc", <<batch, 1, inv>>, Ok(proc(batch, 1, inv, up)))

CallStability ==
    /\ pc = "idle"
    /\ \E ti \in StabInvalid, tp \in StabPoints, an \in StabAnoms,
          d \in Dangers \cup {"UNKNOWN"}, tieUp \in BOOLEAN :
           Returned("calc_stability", <<ti, tp, an, d>>,
                    Ok(calc_stability(ti, tp, an, d, tieUp)))

NextCalls ==
    \/ CallParse
    \/ CallClean
    \/ CallAnalyze
    \/ CallAnom
    \/ CallProc
    \/ CallStability

NextRun ==
    \/ ReadInput
    \/ RejectEmpty
    \/ RejectUnparsed
    \/ Parse
    \/ ProcBatch
    \/ Aggregate

Next == NextCalls \/ NextRun

\* The engine in both uses, the run alone, and the direct calls alone.
Spec == Init /\ [][Next]_vars
SpecRun == Init /\ [][NextRun]_vars
SpecCalls == Init /\ [][NextCalls]_vars

(***************************************************************************)
(* Properties.                                                             *)
(***************************************************************************)
NoAnomaly == [n |-> 0, danger |-> "LOW", anomalies |-> <<>>]
AllRemoved(batch) == \A k \in 1..Len(batch) : ~CleanKeeps(batch[k])
Finished == pc = "done"

\* C1 (as claimed): proc returns no summary whenever cleaning removes every
\* value of the batch (the empty batch included), and run appends no
\* summary for such a batch, so that it adds nothing to the totals.
C1_EmptiedBatchSkipped ==
    /\ call.op = "proc" /\ AllRemoved(call.args[1]) => call.res.val.none
    /\ \A k \in 1..Len(procCalls) :
          AllRemoved(procCalls[k].batch)
            => \A j \in 1..Len(batches) : batches[j].bid # procCalls[k].bid

\* C2 (as claimed): calc_stability(0, 100, 0, LOW) is 100.0 and
\* calc_stability(100, 100, 0, CRITICAL) is 0.0.
C2_StabilityCornersClaimed ==
    call.op = "calc_stability" =>
        /\ call.args = <<0, 100, 0, "LOW">> => call.res.val = 10000
        /\ call.args = <<100, 100, 0, "CRITICAL">> => call.res.val = 0

\* C2 (amended): calc_stability(0, 100, 0, LOW) is 100.0 and
\* calc_stability(100, 100, 0, CRITICAL) is 30.0.
C2_StabilityCorners ==
    call.op = "calc_stability" =>
        /\ call.args = <<0, 100, 0, "LOW">> => call.res.val = 10000
        /\ call.args = <<100, 100, 0, "CRITICAL">> => call.res.val = 3000

C2_Witness ==
    /\ call.op = "calc_stability"
    /\ call.args = <<100, 100, 0, "CRITICAL">>
    /\ call.res.val = 3000

\* C3 (as claimed): the stability score that run computes from the summed
\* batch summaries lies in 0..100.
C3_StabilityInRange ==
    Finished => report.stability >= 0 /\ report.stability <= 10000

\* C4 (as claimed): anom on [1,1,1,1,1,100] returns exactly one anomaly,
\* at index 5.
C4_OutlierFlaggedClaimed ==
    call.op = "anom" /\ call.args = OutlierSeq =>
        /\ call.res.val.n = 1
        /\ Len(call.res.val.anomalies) = 1
        /\ call.res.val.anomalies[1].idx = 5

\* C4 (amended): anom on [1,1,1,1,1,100] with the threshold 3.0 returns no
\* anomaly: (0, LOW, []).
C4_OutlierNotFlagged ==
    call.op = "anom" /\ call.args = OutlierSeq => call.res.val = NoAnomaly

C4_Witness ==
    /\ call.op = "anom"
    /\ call.args = OutlierSeq
    /\ call.res.val.n = 0

\* C5: analyze returns exactly one model, a candidate of maximum score
\* among the computed ones (LINEAR always, QUAD only when n > 2, EXP only
\* when every value is positive, score -1 for a candidate that raised);
\* among candidates of the maximum score it is the earliest in the order
\* LINEAR, QUAD, EXP.
ModelOrder(t) == IF t = "LINEAR" THEN 1 ELSE IF t = "QUAD" THEN 2 ELSE 3
SameScore(a, b) == ~ScoreLess(a, b) /\ ~ScoreLess(b, a)

C5_BestModel ==
    call.op = "analyze" =>
        LET y == call.args[1]
            r == call.res.val
            cands == Candidates(y, call.args[2])
            CandSet == {cands[k] : k \in 1..Len(cands)}
        IN  /\ call.res.ok
            /\ \E c \in CandSet : c.t = "LINEAR"
            /\ (\E c \in CandSet : c.t = "QUAD") <=> Len(y) > 2
            /\ (\E c \in CandSet : c.t = "EXP")
                  <=> \A k \in 1..Len(y) : y[k] > 0
            /\ Len(y) = 0 => \A c \in CandSet : c.r2 = Exact(-1)
            /\ Cardinality({c \in CandSet : c.t = r.t}) = 1
            /\ \E b \in CandSet :
                  /\ b.t = r.t /\ b.r2 = r.r /\ b.p = r.p
                  /\ \A c \in CandSet : ~ScoreLess(b.r2, c.r2)
                  /\ \A c \in CandSet :
                        SameScore(b.r2, c.r2) => ModelOrder(b.t) <= ModelOrder(c.t)

C5_Witness ==
    /\ call.op = "analyze"
    /\ LET cands == Candidates(call.args[1], call.args[2])
       IN  /\ Len(cands) = 3
           /\ SameScore(cands[2].r2, cands[3].r2)
           /\ ScoreLess(cands[1].r2, cands[2].r2)
    /\ call.res.val.t = "QUAD"

\* C6: for a parsed sequence of length L >= 1 and batch size B, run forms
\* ceil(L/B) batches that are consecutive, non-overlapping slices covering
\* the sequence (all but the last of B samples, the last of 1..B, sizes
\* summing to L; 2500 samples at B = 1000 give 1000, 1000, 500) and passes
\* them to proc in increasing batch id 1, 2, ..., each exactly once.
BatchLen(k) == Len(procCalls[k].batch)

C6_Batching ==
    /\ NumBatches(2500, 1000) = 3
    /\ <<SliceEnd(0, 2500, 1000) - SliceStart(0, 1000),
         SliceEnd(1, 2500, 1000) - SliceStart(1, 1000),
         SliceEnd(2, 2500, 1000) - SliceStart(2, 1000)>> = <<1000, 1000, 500>>
    /\ pc \in {"loop", "done", "crashed"} =>
          LET L == Len(data)
              B == batch_sz
          IN  /\ L >= 1
              /\ (nb - 1) * B < L /\ L <= nb * B
              /\ Len(procCalls) = i /\ i <= nb
              /\ \A k \in 1..Len(procCalls) :
                    /\ procCalls[k].bid = k
                    /\ k < nb => BatchLen(k) = B
                    /\ k = nb => BatchLen(k) >= 1 /\ BatchLen(k) <= B
                    /\ \A j \in 1..BatchLen(k) :
                          procCalls[k].batch[j] = data[(k - 1) * B + j]
              /\ pc # "loop" =>
                    /\ Len(procCalls) = nb
                    /\ Sum([k \in 1..nb |-> BatchLen(k)]) = L

C6_Witness ==
    /\ Finished
    /\ nb = 3
    /\ Len(data) = 2 * batch_sz + 1
    /\ Len(procCalls) = 3
    /\ BatchLen(3) = 1

ZAbove(a, t) == a.z2.n > t * t * a.z2.d \/ (a.z2.n = t * t * a.z2.d /\ a.e > 0)
BatchHasZAbove(b, t) ==
    \E j \in 1..Len(b.anom_details) : ZAbove(b.anom_details[j], t)
\* The cleaned samples of the batch of summary b, and whether one of them
\* has an exact z-score above t.
CleanedOf(b) == clean(procCalls[b.bid].batch)[1]
ExactZAbove(y, t) ==
    LET n == Len(y)
        S == Sum(y)
        Q == Sum([k \in 1..n |-> (n * y[k] - S) * (n * y[k] - S)])
    IN  /\ n >= 2
        /\ Q > 0
        /\ \E k \in 1..n : n * (n * y[k] - S) * (n * y[k] - S) > t * t * Q
BatchRating(b) ==
    IF BatchHasZAbove(b, CritZ) THEN "CRITICAL"
    ELSE IF BatchHasZAbove(b, z_th) THEN "HIGH" ELSE "LOW"

C8_OverallDanger ==
    Finished =>
        LET B == {batches[k] : k \in 1..Len(batches)}
        IN  /\ \A b \in B :
                  /\ b.danger = BatchRating(b)
                  /\ ExactZAbove(CleanedOf(b), z_th) => BatchHasZAbove(b, z_th)
                  /\ ExactZAbove(CleanedOf(b), CritZ) => BatchHasZAbove(b, CritZ)
                  /\ b.anom = Len(b.anom_details)
            /\ report.max_danger_val =
                  IF \E b \in B : BatchHasZAbove(b, CritZ) THEN "CRITICAL"
                  ELSE IF \E b \in B : BatchHasZAbove(b, z_th) THEN "HIGH"
                  ELSE "LOW"
            /\ \E b \in B : b.danger = report.max_danger_val
            /\ \A b \in B :
                  DangerRank(b.danger) <= DangerRank(report.max_danger_val)

C8_Witness ==
    /\ Finished
    /\ Len(batches) = 2
    /\ batches[1].danger = "CRITICAL"
    /\ batches[2].danger = "LOW"
    /\ report.max_danger_val = "CRITICAL"

\* C9 (as claimed): in every batch summary valid + invalid_clean = total,
\* hence valid <= total, and in the overall report the summed valid points
\* never exceed the summed input points.
C9_CountConservation ==
    /\ \A k \in 1..Len(batches) :
          /\ batches[k].valid + batches[k].invalid_clean = batches[k].total
          /\ batches[k].valid <= batches[k].total
    /\ Finished => report.total_valid_all <= report.total_points

\* C10 (as claimed): with the threshold 3.0 anom returns (0, LOW, []) for
\* every sequence of at most 10 samples.
C10_TenSamplesClaimed ==
    call.op = "anom" /\ Len(call.args) <= 10 => call.res.val = NoAnomaly

\* C10 (amended): with the threshold 3.0 anom returns (0, LOW, []) for every
\* sequence of at most 9 samples, whatever the values are; an anomaly can
\* only be flagged in a sequence of 10 or more samples.
C10_NineSamples ==
    call.op = "anom" =>
        /\ Len(call.args) <= 9 => call.res.val = NoAnomaly
        /\ call.res.val.n > 0 => Len(call.args) >= 10

C10_Witness ==
    /\ call.op = "anom"
    /\ Len(call.args) = 9
    /\ \E k \in 1..9 : \A j \in (1..9) \ {k} :
          call.args[j] = 8 /\ call.args[k] = 9
    /\ call.res.val = NoAnomaly
====
